---------------------------- MODULE Spec2Model ----------------------------
(***************************************************************************)
(* A model of the VTuber Wiki API (src/main.py): a FastAPI request         *)
(* translator in front of a PostgREST table.                               *)
(*                                                                         *)
(* The translator keeps no state of its own.  The state of the model is    *)
(* the upstream table, the request being handled, the upstream calls that  *)
(* request has made so far and the response it produced.  Handlers share   *)
(* nothing and every upstream call is one atomic operation of the table,   *)
(* so requests are taken one at a time: a request arrives (pc = "idle"),   *)
(* its handler runs (the bulk handlers one upstream call at a time) and    *)
(* ends in pc = "done" with the response, which Respond hands back.        *)
(*                                                                         *)
(* Strings the code inspects (the Authorization header, names, agencies,   *)
(* search terms) are sequences of one-character strings.  Python's None is *)
(* the value None below, which is no such sequence.  Of the seven optional *)
(* passthrough fields of a profile the model keeps agency and description; *)
(* the others (debut_date, image_url, youtube_channel, twitter_handle,     *)
(* tags) are carried by the code exactly as description is.  The           *)
(* server-generated timestamps are left out.                               *)
(***************************************************************************)
EXTENDS Integers, Sequences, FiniteSets, TLC

VARIABLES
    store,      \* the upstream table: a set of rows [id, name, agency, description]
    nextId,     \* the next identifier the upstream generates (never reused)
    pc,         \* "idle" | "loop" | "await" | "done"
    req,        \* the request being handled: [op, auth, args]
    resp,       \* its response: [status, body]
    calls,      \* the upstream calls it has made: <<[method, target, body, status]>>
    pre,        \* the table as it was when the request arrived
    results,    \* bulk handlers: the accumulated `results` list
    idx,        \* bulk handlers: index of the payload the loop is at
    pageRows,   \* SpecPage: number of rows of the table that match the query
    pageReq,    \* SpecPage: the list/search request [op, limit, offset]
    pageOut     \* SpecPage: [limit, offset] forwarded upstream and the response resp

vars == <<store, nextId, pc, req, resp, calls, pre, results, idx,
          pageRows, pageReq, pageOut>>
crudVars == <<store, nextId, pc, req, resp, calls, pre, results, idx>>
pageVars == <<pageRows, pageReq, pageOut>>

---------------------------------------------------------------------------
(* Bounds of the model *)

\* identifiers the upstream can generate before the model stops inserting
MaxIds == 2
\* longest payload sequence of a bulk request
MaxBulk == 3
\* largest number of matching rows in SpecPage
MaxPageRows == 102

(* Program constants *)

MaxNameLength == 100
MaxAgencyLength == 100
ListLimitCap == 100
SearchLimitCap == 50

---------------------------------------------------------------------------
(* Values *)

None == <<"None">>

\* an identifier no profile ever has (a random unused UUID)
UnusedId == MaxIds + 1

Min(a, b) == IF a <= b THEN a ELSE b
Max(a, b) == IF a >= b THEN a ELSE b

Range(s) == {s[i] : i \in 1..Len(s)}

\* str.lower() on the characters the model uses
LowerChar(c) ==
    CASE c = "A" -> "a" [] c = "B" -> "b" [] c = "E" -> "e" [] c = "R" -> "r"
      [] c = "X" -> "x" [] c = "Y" -> "y" [] OTHER -> c

lower(s) == [i \in 1..Len(s) |-> LowerChar(s[i])]

startswith(s, p) == Len(s) >= Len(p) /\ SubSeq(s, 1, Len(p)) = p

\* Unicode code points, the order of Python's str comparison
CodePoint(c) ==
    CASE c = " " -> 32 [] c = "A" -> 65 [] c = "B" -> 66 [] c = "E" -> 69
      [] c = "R" -> 82 [] c = "X" -> 88 [] c = "Y" -> 89 [] c = "a" -> 97
      [] c = "b" -> 98 [] c = "e" -> 101 [] c = "r" -> 114 [] c = "t" -> 116
      [] c = "x" -> 120 [] c = "y" -> 121 [] OTHER -> 0

\* a < b for Python strings
StrLess(a, b) ==
    \E k \in 0..Min(Len(a), Len(b)) :
        /\ SubSeq(a, 1, k) = SubSeq(b, 1, k)
        /\ \/ k = Len(a) /\ k < Len(b)
           \/ k < Len(a) /\ k < Len(b) /\ CodePoint(a[k + 1]) < CodePoint(b[k + 1])

\* Python truthiness of an Optional[str]
Truthy(s) == s # None /\ s # <<>>

---------------------------------------------------------------------------
(* Authentication dependency *)

BearerPrefix == <<"b", "e", "a", "r", "e", "r", " ">>

\* a guard that only checks that the header is present
get_user_token_presence_only(authorization) == authorization # None

\* TRUE when the dependency returns the header, FALSE when it raises 401
get_user_token(authorization) ==
    ~ (\/ ~ Truthy(authorization)
       \/ ~ startswith(lower(authorization), BearerPrefix))


---------------------------------------------------------------------------
(* Request models *)

\* VTuberCreate: name is required, 1..100 characters; agency at most 100
VTuberCreate(p) ==
    /\ p.name # None
    /\ Len(p.name) >= 1
    /\ Len(p.name) <= MaxNameLength
    /\ (p.agency # None => Len(p.agency) <= MaxAgencyLength)

\* VTuberUpdate: every field optional; a given name is 1..100 characters
VTuberUpdate(p) ==
    p.name # None => (Len(p.name) >= 1 /\ Len(p.name) <= MaxNameLength)

\* VTuberBulkCreate / List[VTuberCreate]: every element must validate
VTuberBulkCreate(vtubers) == \A i \in 1..Len(vtubers) : VTuberCreate(vtubers[i])

\* payload.model_dump(mode="json"): every field, None included
model_dump(p) == [k \in DOMAIN p |-> p[k]]

---------------------------------------------------------------------------
(* The upstream table (PostgREST), one operator per kind of call.  A call   *)
(* either is carried out or is answered with an error status; which, the    *)
(* upstream decides (it alone judges the credential).  The handlers test    *)
(* only r.status_code >= 400, so the model takes the lowest such status     *)
(* and a server error for the selections, and a server error for the        *)
(* writes.                                                                  *)

ReadFailures == {400, 500}
WriteFailures == {500}

Refusals == {[status |-> s, rows |-> <<>>] : s \in ReadFailures}

Perms(S) ==
    {f \in [1..Cardinality(S) -> S] : \A i, j \in 1..Cardinality(S) : i # j => f[i] # f[j]}

\* order=<col>.asc : ascending, NULLS LAST, ties in any order
ColLess(a, b, col) == a[col] # None /\ (b[col] = None \/ StrLess(a[col], b[col]))

Orderings(S, col) ==
    {f \in Perms(S) : \A i, j \in 1..Cardinality(S) : i < j => ~ ColLess(f[j], f[i], col)}

\* offset=<o>&limit=<l> on an ordered result
Slice(seq, offset, limit) == SubSeq(seq, offset + 1, Min(Len(seq), offset + limit))

Contains(s, t) == \E i \in 0..(Len(s) - Len(t)) : SubSeq(s, i + 1, i + Len(t)) = t

\* <col>.ilike.*q* : case-insensitive substring match, never true of NULL
ilike(v, q) == v # None /\ Contains(lower(v), lower(q))

\* GET with select=*, limit, offset, order and an optional agency=eq.<a>
UpSelectList(table, params) ==
    Refusals \cup
    IF params.limit < 0
    THEN {[status |-> 416, rows |-> <<>>]}
    ELSE LET hits == {r \in table : params.agency = None \/ r.agency = params.agency}
         IN  {[status |-> 200, rows |-> Slice(o, params.offset, params.limit)] :
                  o \in Orderings(hits, params.order)}

\* GET with select=*, id=eq.<id>
UpSelectById(table, id) ==
    Refusals \cup
    {[status |-> 200, rows |-> o] : o \in Perms({r \in table : r.id = id})}

\* GET with select=*, limit, offset, or=(name.ilike.*q*,description.ilike.*q*)
UpSelectSearch(table, params) ==
    Refusals \cup
    IF params.limit < 0
    THEN {[status |-> 416, rows |-> <<>>]}
    ELSE LET hits == {r \in table : ilike(r.name, params.q) \/ ilike(r.description, params.q)}
         IN  {[status |-> 200, rows |-> Slice(o, params.offset, params.limit)] :
                  o \in Perms(hits)}

\* GET with select=agency, agency=not.is.null, order=agency.asc (the
\* upstream's collation decides the order, which need not be Python's)
UpSelectAgencies(table) ==
    Refusals \cup
    {[status |-> 200, rows |-> [i \in 1..Len(o) |-> [agency |-> o[i].agency]]] :
         o \in Perms({r \in table : r.agency # None})}

WriteRefusals(table, nid) ==
    {[status |-> s, rows |-> <<>>, table |-> table, nextId |-> nid] : s \in WriteFailures}

\* POST of one row: the upstream generates the identifier
UpInsert(table, nid, body) ==
    WriteRefusals(table, nid) \cup
    IF nid > MaxIds THEN {}
    ELSE LET row == [id |-> nid, name |-> body.name, agency |-> body.agency,
                     description |-> body.description]
         IN  {[status |-> 201, rows |-> <<row>>, table |-> table \cup {row},
               nextId |-> nid + 1]}

Patched(r, data) == [f \in DOMAIN r |-> IF f \in DOMAIN data THEN data[f] ELSE r[f]]

\* PATCH with id=eq.<id>: sets the columns of the body, returns the rows changed
UpPatch(table, nid, id, data) ==
    WriteRefusals(table, nid) \cup
    {[status |-> 200,
      rows   |-> [i \in 1..Len(o) |-> Patched(o[i], data)],
      table  |-> {IF r.id = id THEN Patched(r, data) ELSE r : r \in table},
      nextId |-> nid] : o \in Perms({r \in table : r.id = id})}

\* DELETE with id=eq.<id>: removes the matching rows, none is no error
UpDelete(table, nid, id) ==
    WriteRefusals(table, nid) \cup
    {[status |-> 200, rows |-> o, table |-> {r \in table : r.id # id}, nextId |-> nid] :
         o \in Perms({r \in table : r.id = id})}


---------------------------------------------------------------------------
(* Inputs the requests are drawn from *)

AuthHeaders ==
    { None,
      <<>>,
      <<"B", "e", "a", "r", "e", "r", " ", "t">>,
      <<"b", "e", "a", "r", "e", "r">> }

Names == {<<>>, <<"A">>}
Agencies == {None, <<>>, <<"X">>, <<"Y">>}
Descriptions == {None, <<"a">>}

CreatePayloads == [name : Names, agency : Agencies, description : Descriptions]
UpdatePayloads ==
    [name : Names \cup {None}, agency : Agencies, description : Descriptions]

\* the payloads of bulk requests: two valid ones and one with an empty name
BulkPayloads ==
    { [name |-> <<"A">>, agency |-> None, description |-> None],
      [name |-> <<"A">>, agency |-> <<"X">>, description |-> <<"a">>],
      [name |-> <<>>, agency |-> None, description |-> None] }

BulkBodies == UNION {[1..n -> BulkPayloads] : n \in 0..MaxBulk}

\* identifiers a caller can name: those handed out so far, or an unused one
RequestIds == (1..(nextId - 1)) \cup {UnusedId}

Limits == {-1, 1, 101}
Offsets == {-1, 1}
SortColumns == {"name", "agency"}
Queries == {<<"a">>, <<"x">>}

PageLimits == {-1, 0, 1, 49, 50, 51, 99, 100, 101, 150}
PageOffsets == {-1, 0, 1}

---------------------------------------------------------------------------
(* What the handlers compute *)

NoRequest == [op |-> "none", auth |-> None, args |-> <<>>]
NoResponse == [status |-> 0, body |-> <<>>]

\* raise HTTPException(status, ...)
HTTPException(status) == [status |-> status, body |-> <<>>]

Call(method, target, body, status) ==
    [method |-> method, target |-> target, body |-> body, status |-> status]

\* list_vtubers without the cap on the limit
list_params_uncapped(limit, offset, agency, sort_by) ==
    [limit  |-> limit,
     offset |-> Max(offset, 0),
     order  |-> sort_by,
     agency |-> IF Truthy(agency) THEN agency ELSE None]

list_params(limit, offset, agency, sort_by) ==
    [limit  |-> Min(limit, ListLimitCap),
     offset |-> Max(offset, 0),
     order  |-> sort_by,
     agency |-> IF Truthy(agency) THEN agency ELSE None]

search_params(q, limit, offset) ==
    [limit  |-> Min(limit, SearchLimitCap),
     offset |-> Max(offset, 0),
     q      |-> q]

list_response(r) ==
    IF r.status >= 400 THEN HTTPException(r.status)
    ELSE [status |-> 200, body |-> r.rows]

\* get_vtuber returning whatever the upstream found
get_response_no_404(r) ==
    IF r.status >= 400 THEN HTTPException(r.status)
    ELSE [status |-> 200, body |-> r.rows]

get_response(r) ==
    IF r.status >= 400 THEN HTTPException(r.status)
    ELSE IF Len(r.rows) = 0 THEN HTTPException(404)
    ELSE [status |-> 200, body |-> r.rows]

search_response(r) ==
    IF r.status >= 400 THEN HTTPException(r.status)
    ELSE [status |-> 200, body |-> r.rows]

\* [item["agency"] for item in r.json() if item["agency"]]
agency_items(rows) ==
    LET kept == SelectSeq(rows, LAMBDA item : Truthy(item.agency))
    IN  [i \in 1..Len(kept) |-> kept[i].agency]

py_set(l) == Range(l)

\* list(<set>): the elements in whatever order the set iterates
py_list(S) == CHOOSE f \in Perms(S) : TRUE

Insert(x, s) ==
    LET k == Cardinality({i \in 1..Len(s) : ~ StrLess(x, s[i])})
    IN  SubSeq(s, 1, k) \o <<x>> \o SubSeq(s, k + 1, Len(s))

RECURSIVE sorted(_)
\* sorted(<list of str>): ascending by code point, duplicates kept
sorted(l) ==
    IF Len(l) = 0 THEN <<>>
    ELSE Insert(l[Len(l)], sorted(SubSeq(l, 1, Len(l) - 1)))

\* the agencies without the set() around the comprehension
agencies_no_set(rows) == agency_items(rows)

\* list(set([...]))
agencies(rows) == py_list(py_set(agency_items(rows)))

agencies_response(r) ==
    IF r.status >= 400 THEN HTTPException(r.status)
    ELSE [status |-> 200, body |-> sorted(agencies(r.rows))]

create_response(r) ==
    IF r.status >= 400 THEN HTTPException(r.status)
    ELSE [status |-> 201, body |-> r.rows]

\* update_vtuber keeping the truthy values only (`if v`), so that an empty
\* string is stripped like a None
update_data_truthy_only(payload) ==
    LET dump == model_dump(payload)
    IN  [k \in {k \in DOMAIN dump : Truthy(dump[k])} |-> dump[k]]

\* update_vtuber sending the whole dump, None values included
update_data_with_nulls(payload) == model_dump(payload)

\* {k: v for k, v in payload.model_dump(mode="json").items() if v is not None}
update_data(payload) ==
    LET dump == model_dump(payload)
    IN  [k \in {k \in DOMAIN dump : dump[k] # None} |-> dump[k]]

update_response(r) ==
    IF r.status >= 400 THEN HTTPException(r.status)
    ELSE IF Len(r.rows) = 0 THEN HTTPException(404)
    ELSE [status |-> 200, body |-> r.rows]

\* delete_vtuber checking that a row was there, as update_vtuber does
delete_response_checks_existence(r) ==
    IF r.status >= 400 THEN HTTPException(r.status)
    ELSE IF Len(r.rows) = 0 THEN HTTPException(404)
    ELSE [status |-> 204, body |-> <<>>]

\* delete_vtuber returning 204 whatever the upstream answered
delete_response_no_relay(r) == [status |-> 204, body |-> <<>>]

delete_response(r) ==
    IF r.status >= 400 THEN HTTPException(r.status)
    ELSE [status |-> 204, body |-> <<>>]

\* the bulk loop dropping what it had gathered when an insertion fails
bulk_results_reset(results_, r) ==
    IF r.status >= 400 THEN <<>> ELSE results_ \o r.rows

\* if r.status_code >= 400: continue / results.extend(r.json())
bulk_results(results_, r) ==
    IF r.status >= 400 THEN results_ ELSE results_ \o r.rows

\* the bulk loop giving up at the first failed insertion
bulk_next_stop_on_failure(i, n, r) == IF r.status >= 400 THEN n + 1 ELSE i + 1

\* for vtuber_data in ...: the loop goes on to the next payload either way
bulk_next(i, n, r) == i + 1


---------------------------------------------------------------------------
(* The handlers *)

\* the handler ends: response r_, upstream calls cs, the table left as st
Finish(rq, r_, cs, st, nid) ==
    /\ pc' = "done"
    /\ req' = rq
    /\ resp' = r_
    /\ calls' = cs
    /\ store' = st
    /\ nextId' = nid
    /\ pre' = store
    /\ UNCHANGED <<results, idx, pageVars>>

\* a 401 from the dependency, or a 422 from the request model, before the handler
Rejected(rq, status) == Finish(rq, HTTPException(status), <<>>, store, nextId)

list_vtubers ==
    /\ pc = "idle"
    /\ \E limit \in Limits, offset \in Offsets, agency \in {None, <<>>, <<"X">>},
          sort_by \in SortColumns :
         LET rq == [op |-> "list", auth |-> None,
                    args |-> [limit |-> limit, offset |-> offset, agency |-> agency,
                              sort_by |-> sort_by]]
             params == list_params(limit, offset, agency, sort_by)
         IN  \E r \in UpSelectList(store, params) :
                 Finish(rq, list_response(r),
                        <<Call("GET", params, None, r.status)>>, store, nextId)

get_vtuber ==
    /\ pc = "idle"
    /\ \E vtuber_id \in RequestIds :
         LET rq == [op |-> "get", auth |-> None, args |-> [vtuber_id |-> vtuber_id]]
         IN  \E r \in UpSelectById(store, vtuber_id) :
                 Finish(rq, get_response(r),
                        <<Call("GET", vtuber_id, None, r.status)>>, store, nextId)

search_vtubers ==
    /\ pc = "idle"
    /\ \E q \in Queries, limit \in Limits, offset \in Offsets :
         LET rq == [op |-> "search", auth |-> None,
                    args |-> [q |-> q, limit |-> limit, offset |-> offset]]
             params == search_params(q, limit, offset)
         IN  \E r \in UpSelectSearch(store, params) :
                 Finish(rq, search_response(r),
                        <<Call("GET", params, None, r.status)>>, store, nextId)

list_agencies ==
    /\ pc = "idle"
    /\ LET rq == [op |-> "agencies", auth |-> None, args |-> <<>>]
       IN  \E r \in UpSelectAgencies(store) :
               Finish(rq, agencies_response(r),
                      <<Call("GET", None, None, r.status)>>, store, nextId)

create_vtuber ==
    /\ pc = "idle"
    /\ \E authorization \in AuthHeaders, payload \in CreatePayloads :
         LET rq == [op |-> "create", auth |-> authorization,
                    args |-> [payload |-> payload]]
         IN  IF ~ get_user_token(authorization) THEN Rejected(rq, 401)
             ELSE IF ~ VTuberCreate(payload) THEN Rejected(rq, 422)
             ELSE \E r \in UpInsert(store, nextId, model_dump(payload)) :
                      Finish(rq, create_response(r),
                             <<Call("POST", None, model_dump(payload), r.status)>>,
                             r.table, r.nextId)

update_vtuber ==
    /\ pc = "idle"
    /\ \E authorization \in AuthHeaders, vtuber_id \in RequestIds,
          payload \in UpdatePayloads :
         LET rq == [op |-> "update", auth |-> authorization,
                    args |-> [vtuber_id |-> vtuber_id, payload |-> payload]]
             data == update_data(payload)
         IN  IF ~ get_user_token(authorization) THEN Rejected(rq, 401)
             ELSE IF ~ VTuberUpdate(payload) THEN Rejected(rq, 422)
             ELSE IF DOMAIN data = {} THEN Rejected(rq, 400)
             ELSE \E r \in UpPatch(store, nextId, vtuber_id, data) :
                      Finish(rq, update_response(r),
                             <<Call("PATCH", vtuber_id, data, r.status)>>,
                             r.table, r.nextId)

delete_vtuber ==
    /\ pc = "idle"
    /\ \E authorization \in AuthHeaders, vtuber_id \in RequestIds :
         LET rq == [op |-> "delete", auth |-> authorization,
                    args |-> [vtuber_id |-> vtuber_id]]
         IN  IF ~ get_user_token(authorization) THEN Rejected(rq, 401)
             ELSE \E r \in UpDelete(store, nextId, vtuber_id) :
                      Finish(rq, delete_response(r),
                             <<Call("DELETE", vtuber_id, None, r.status)>>,
                             r.table, r.nextId)

(* The two bulk handlers run the same loop; op is "bulk" (the body wraps   *)
(* the sequence in an object) or "batch" (the body is the sequence).       *)

\* the request arrives: dependency, request model, then results = []
BulkEnter(op) ==
    /\ pc = "idle"
    /\ \E authorization \in AuthHeaders, vtubers \in BulkBodies :
         LET rq == [op |-> op, auth |-> authorization, args |-> [vtubers |-> vtubers]]
         IN  IF ~ get_user_token(authorization) THEN Rejected(rq, 401)
             ELSE IF ~ VTuberBulkCreate(vtubers) THEN Rejected(rq, 422)
             ELSE /\ pc' = "loop"
                  /\ req' = rq
                  /\ resp' = NoResponse
                  /\ calls' = <<>>
                  /\ results' = <<>>
                  /\ idx' = 1
                  /\ pre' = store
                  /\ UNCHANGED <<store, nextId, pageVars>>

\* r = await client.post(...): the call for the payload at idx goes out
BulkPost(op) ==
    /\ pc = "loop"
    /\ req.op = op
    /\ idx <= Len(req.args.vtubers)
    /\ pc' = "await"
    /\ calls' = Append(calls, Call("POST", None, model_dump(req.args.vtubers[idx]), 0))
    /\ UNCHANGED <<store, nextId, req, resp, pre, results, idx, pageVars>>

\* the upstream answers; the loop keeps the rows or skips, and goes on
BulkReply(op) ==
    /\ pc = "await"
    /\ req.op = op
    /\ \E r \in UpInsert(store, nextId, calls[Len(calls)].body) :
         /\ store' = r.table
         /\ nextId' = r.nextId
         /\ calls' = [calls EXCEPT ![Len(calls)].status = r.status]
         /\ results' = bulk_results(results, r)
         /\ idx' = bulk_next(idx, Len(req.args.vtubers), r)
    /\ pc' = "loop"
    /\ UNCHANGED <<req, resp, pre, pageVars>>

\* return results
BulkReturn(op) ==
    /\ pc = "loop"
    /\ req.op = op
    /\ idx > Len(req.args.vtubers)
    /\ pc' = "done"
    /\ resp' = [status |-> 201, body |-> results]
    /\ UNCHANGED <<store, nextId, req, calls, pre, results, idx, pageVars>>

create_vtubers_bulk ==
    BulkEnter("bulk") \/ BulkPost("bulk") \/ BulkReply("bulk") \/ BulkReturn("bulk")

create_vtubers_batch ==
    BulkEnter("batch") \/ BulkPost("batch") \/ BulkReply("batch") \/ BulkReturn("batch")

\* the response goes back to the caller; the next request can arrive
Respond ==
    /\ pc = "done"
    /\ pc' = "idle"
    /\ req' = NoRequest
    /\ resp' = NoResponse
    /\ calls' = <<>>
    /\ results' = <<>>
    /\ idx' = 0
    /\ pre' = store
    /\ UNCHANGED <<store, nextId, pageVars>>

---------------------------------------------------------------------------
(* The service *)

Init ==
    /\ store = {}
    /\ nextId = 1
    /\ pc = "idle"
    /\ req = NoRequest
    /\ resp = NoResponse
    /\ calls = <<>>
    /\ pre = {}
    /\ results = <<>>
    /\ idx = 0
    /\ pageRows = 0
    /\ pageReq = NoRequest
    /\ pageOut = [limit |-> 0, offset |-> 0, resp |-> NoResponse]

Next ==
    \/ list_vtubers
    \/ get_vtuber
    \/ search_vtubers
    \/ list_agencies
    \/ create_vtuber
    \/ create_vtubers_bulk
    \/ create_vtubers_batch
    \/ update_vtuber
    \/ delete_vtuber
    \/ Respond

Spec == Init /\ [][Next]_vars

---------------------------------------------------------------------------
(* Pagination on a table of any size.  Only the number of rows matters to   *)
(* the cap, so the table is the rows 1..pageRows in result order; a run     *)
(* picks the size of the table and handles one list or search request.      *)

PageTable == [i \in 1..pageRows |-> i]

\* the upstream's answer to limit and offset on the ordered rows
UpSelectPage(params) ==
    Refusals \cup
    IF params.limit < 0
    THEN {[status |-> 416, rows |-> <<>>]}
    ELSE {[status |-> 200, rows |-> Slice(PageTable, params.offset, params.limit)]}

PageList ==
    /\ pageReq = NoRequest
    /\ \E limit \in PageLimits, offset \in PageOffsets :
        LET params == list_params(limit, offset, None, "name")
        IN  \E r \in UpSelectPage(params) :
                /\ pageReq' = [op |-> "list", auth |-> None,
                               args |-> [limit |-> limit, offset |-> offset]]
                /\ pageOut' = [limit |-> params.limit, offset |-> params.offset,
                               resp |-> list_response(r)]
                /\ UNCHANGED <<pageRows, crudVars>>

PageSearch ==
    /\ pageReq = NoRequest
    /\ \E limit \in PageLimits, offset \in PageOffsets :
        LET params == search_params(<<>>, limit, offset)
        IN  \E r \in UpSelectPage(params) :
                /\ pageReq' = [op |-> "search", auth |-> None,
                               args |-> [limit |-> limit, offset |-> offset]]
                /\ pageOut' = [limit |-> params.limit, offset |-> params.offset,
                               resp |-> search_response(r)]
                /\ UNCHANGED <<pageRows, crudVars>>

InitPage ==
    /\ store = {}
    /\ nextId = 1
    /\ pc = "idle"
    /\ req = NoRequest
    /\ resp = NoResponse
    /\ calls = <<>>
    /\ pre = {}
    /\ results = <<>>
    /\ idx = 0
    /\ pageRows \in 0..MaxPageRows
    /\ pageReq = NoRequest
    /\ pageOut = [limit |-> 0, offset |-> 0, resp |-> NoResponse]

NextPage == PageList \/ PageSearch

SpecPage == InitPage /\ [][NextPage]_vars


---------------------------------------------------------------------------
(* Vocabulary of the properties *)

Done == pc = "done"
WriteOps == {"create", "bulk", "batch", "update", "delete"}
BulkOps == {"bulk", "batch"}

\* the header is present and starts with "bearer " in any letter case
WellFormedBearer(h) ==
    /\ h # None
    /\ Len(h) >= 7
    /\ h[1] \in {"b", "B"} /\ h[2] \in {"e", "E"} /\ h[3] \in {"a", "A"}
    /\ h[4] \in {"r", "R"} /\ h[5] \in {"e", "E"} /\ h[6] \in {"r", "R"}
    /\ h[7] = " "

EmptyName(p) == p.name = <<>>
AllNull(p) == \A k \in DOMAIN p : p[k] = None
InTable(table, id) == \E r \in table : r.id = id
RowOf(table, id) == CHOOSE r \in table : r.id = id
SameFields(row, p) ==
    row.name = p.name /\ row.agency = p.agency /\ row.description = p.description
Failed(k) == calls[k].status >= 400
\* the positions of the upstream calls that were carried out, in order
Succeeded == SelectSeq([k \in 1..Len(calls) |-> k], LAMBDA k : calls[k].status < 400)

---------------------------------------------------------------------------
(* C1 *)

\* C1: a write request (create, bulk, batch, update, delete) whose
\* Authorization header is absent or does not start with "bearer " (any
\* case) is answered 401, makes no upstream call and leaves the table as
\* it was; no such request ever gets into the bulk loop.
C1_UnauthorizedWriteRejected ==
    (req.op \in WriteOps /\ ~ WellFormedBearer(req.auth)) =>
        /\ Done
        /\ resp.status = 401
        /\ calls = <<>>
        /\ store = pre

C1_Witness ==
    /\ Done
    /\ req.op = "update"
    /\ req.auth = <<"b", "e", "a", "r", "e", "r">>
    /\ InTable(pre, req.args.vtuber_id)
    /\ resp.status = 401

---------------------------------------------------------------------------
(* C2 *)

\* C2 as stated: a bulk create with a valid credential in which some
\* payload is invalid (an empty name) and others are not still succeeds
\* with 201 and returns the profiles created from the other payloads.
C2_InvalidPayloadSkipped ==
    (/\ Done
     /\ req.op \in BulkOps
     /\ WellFormedBearer(req.auth)
     /\ \E i \in 1..Len(req.args.vtubers) : EmptyName(req.args.vtubers[i])
     /\ \E i \in 1..Len(req.args.vtubers) : ~ EmptyName(req.args.vtubers[i])) =>
        /\ resp.status = 201
        /\ Len(resp.body) = Len(Succeeded)

\* C2 amended: with a valid credential, a bulk create in which any payload
\* fails request validation (an empty name) is rejected whole with 422,
\* before any insertion; one whose payloads all validate returns 201 with
\* exactly the profiles of the payloads whose insertion the upstream
\* carried out, in input order, and nothing about those it refused.
C2_BulkReturnsSuccessesInOrder ==
    (Done /\ req.op \in BulkOps /\ WellFormedBearer(req.auth)) =>
        IF \E i \in 1..Len(req.args.vtubers) : EmptyName(req.args.vtubers[i])
        THEN resp.status = 422 /\ calls = <<>> /\ store = pre
        ELSE /\ resp.status = 201
             /\ Len(calls) = Len(req.args.vtubers)
             /\ Len(resp.body) = Len(Succeeded)
             /\ \A j \in 1..Len(Succeeded) :
                    /\ SameFields(resp.body[j], req.args.vtubers[Succeeded[j]])
                    /\ resp.body[j] \in store
                    /\ \A m \in 1..Len(Succeeded) :
                           m # j => resp.body[m].id # resp.body[j].id

C2_Witness ==
    /\ Done
    /\ req.op = "bulk"
    /\ Len(req.args.vtubers) = 3
    /\ Len(calls) = 3
    /\ ~ Failed(1) /\ Failed(2) /\ ~ Failed(3)
    /\ resp.status = 201
    /\ Len(resp.body) = 2

---------------------------------------------------------------------------
(* C3 *)

\* C3 as stated: an update whose payload has only null fields is always
\* answered 400, with no upstream call.
C3_AllNullAlwaysBadRequest ==
    (Done /\ req.op = "update" /\ AllNull(req.args.payload)) =>
        resp.status = 400 /\ calls = <<>> /\ store = pre

\* C3 amended: an update whose payload has only null fields never reaches
\* the upstream and leaves the table as it was; it is answered 400 when
\* the request carries a well-formed bearer credential, and 401 (the
\* credential check comes first) when it does not.
C3_AllNullNeverForwarded ==
    (Done /\ req.op = "update" /\ AllNull(req.args.payload)) =>
        /\ calls = <<>>
        /\ store = pre
        /\ resp.status = IF WellFormedBearer(req.auth) THEN 400 ELSE 401

C3_Witness ==
    /\ Done
    /\ req.op = "update"
    /\ AllNull(req.args.payload)
    /\ WellFormedBearer(req.auth)
    /\ InTable(pre, req.args.vtuber_id)
    /\ resp.status = 400

---------------------------------------------------------------------------
(* C4 *)

\* C4 as stated: a get on an identifier no profile has is always answered
\* 404.
C4_AbsentAlwaysNotFound ==
    (Done /\ req.op = "get" /\ ~ InTable(pre, req.args.vtuber_id)) =>
        resp.status = 404

\* C4 amended: a get on an identifier no profile has is answered 404
\* whenever the upstream answers the selection; when the upstream refuses
\* the call its error status is relayed instead.  In no case is a get
\* answered with a success carrying an empty sequence.
C4_AbsentNotFoundOrRelayed ==
    (Done /\ req.op = "get") =>
        /\ Len(calls) = 1
        /\ (resp.status = 200 => Len(resp.body) > 0)
        /\ (~ InTable(pre, req.args.vtuber_id) =>
                resp.status = IF Failed(1) THEN calls[1].status ELSE 404)

C4_Witness ==
    /\ Done
    /\ req.op = "get"
    /\ req.args.vtuber_id < nextId
    /\ ~ InTable(pre, req.args.vtuber_id)
    /\ resp.status = 404

---------------------------------------------------------------------------
(* C5 *)

\* C5 as stated: with a valid credential a delete is always answered 204,
\* also when the identifier was deleted before or never existed.
C5_DeleteAlwaysSucceeds ==
    (Done /\ req.op = "delete" /\ WellFormedBearer(req.auth)) =>
        resp.status = 204

\* C5 amended: with a valid credential a delete makes exactly one upstream
\* call, and whenever the upstream carries it out the answer is 204 whether
\* or not a row was there: deleting an identifier again, or one that never
\* existed, is answered 204 and leaves the table as the first delete left
\* it.  When the upstream refuses the call, its error status is relayed
\* and the table is unchanged; the handler itself never answers 404.
C5_DeleteIdempotent ==
    (Done /\ req.op = "delete" /\ WellFormedBearer(req.auth)) =>
        /\ Len(calls) = 1
        /\ calls[1].method = "DELETE"
        /\ IF Failed(1)
           THEN resp.status = calls[1].status /\ store = pre
           ELSE /\ resp.status = 204
                /\ ~ InTable(store, req.args.vtuber_id)
                /\ store = {r \in pre : r.id # req.args.vtuber_id}
                /\ (~ InTable(pre, req.args.vtuber_id) => store = pre)

\* a second delete: the identifier had been handed out and its row is gone
C5_Witness ==
    /\ Done
    /\ req.op = "delete"
    /\ WellFormedBearer(req.auth)
    /\ req.args.vtuber_id < nextId
    /\ ~ InTable(pre, req.args.vtuber_id)
    /\ pre # {}
    /\ resp.status = 204
    /\ store = pre


---------------------------------------------------------------------------
(* C6 *)

\* C6: whatever limit is requested (zero, negative, above the cap) and
\* however many rows match, the limit forwarded upstream is at most 100 for
\* list and at most 50 for search, and a successful response carries at
\* most 100, respectively 50, items.
C6_LimitCapped ==
    /\ pageReq.op = "list" =>
           /\ pageOut.limit <= 100
           /\ (pageOut.resp.status = 200 => Len(pageOut.resp.body) <= 100)
    /\ pageReq.op = "search" =>
           /\ pageOut.limit <= 50
           /\ (pageOut.resp.status = 200 => Len(pageOut.resp.body) <= 50)

\* a list asking for 150 of more than 100 rows gets exactly 100
C6_Witness ==
    /\ pageReq.op = "list"
    /\ pageReq.args.limit = 150
    /\ pageRows > 100
    /\ pageOut.limit = 100
    /\ pageOut.resp.status = 200
    /\ Len(pageOut.resp.body) = 100

---------------------------------------------------------------------------
(* C7 *)

NoDuplicates(l) == \A i, j \in 1..Len(l) : i # j => l[i] # l[j]
Ascending(l) == \A i, j \in 1..Len(l) : i < j => StrLess(l[i], l[j])

\* C7 as stated: the agencies listing has no duplicate, no null, is sorted
\* ascending and holds exactly the distinct non-null agency values of the
\* rows.
C7_ExactlyNonNullAgencies ==
    (Done /\ req.op = "agencies" /\ resp.status = 200) =>
        /\ NoDuplicates(resp.body)
        /\ None \notin Range(resp.body)
        /\ Ascending(resp.body)
        /\ Range(resp.body) = {r.agency : r \in {x \in pre : x.agency # None}}

\* C7 amended: the agencies listing has no duplicate, no null, is sorted
\* ascending and holds exactly the distinct agency values of the rows that
\* are neither null nor the empty string (an empty agency is dropped with
\* the nulls).
C7_ExactlyNonEmptyAgencies ==
    (Done /\ req.op = "agencies" /\ resp.status = 200) =>
        /\ NoDuplicates(resp.body)
        /\ None \notin Range(resp.body)
        /\ Ascending(resp.body)
        /\ Range(resp.body) =
               {r.agency : r \in {x \in pre : x.agency # None /\ x.agency # <<>>}}

\* two profiles of the same agency are listed once
C7_Witness ==
    /\ Done
    /\ req.op = "agencies"
    /\ resp.status = 200
    /\ \E r1, r2 \in pre : r1.id # r2.id /\ r1.agency = r2.agency /\ r1.agency = <<"X">>
    /\ resp.body = << <<"X">> >>

---------------------------------------------------------------------------
(* C8 *)

\* C8: an update with a valid credential sends the upstream exactly the
\* payload's non-null fields, with their values, in one PATCH on the
\* target; the fields given as null keep their stored value on the target
\* profile, the non-null ones take the payload's value when the upstream
\* carries the call out, and every other profile is unchanged.
C8_UpdateForwardsNonNullOnly ==
    (Done /\ req.op = "update" /\ WellFormedBearer(req.auth)
          /\ ~ AllNull(req.args.payload) /\ ~ EmptyName(req.args.payload)) =>
        LET p == req.args.payload
            id == req.args.vtuber_id
        IN  /\ Len(calls) = 1
            /\ calls[1].method = "PATCH"
            /\ calls[1].target = id
            /\ DOMAIN calls[1].body = {k \in DOMAIN p : p[k] # None}
            /\ \A k \in DOMAIN calls[1].body : calls[1].body[k] = p[k]
            /\ {r \in store : r.id # id} = {r \in pre : r.id # id}
            /\ InTable(store, id) = InTable(pre, id)
            /\ InTable(pre, id) =>
                   \A k \in DOMAIN p :
                       RowOf(store, id)[k] =
                           IF p[k] = None \/ Failed(1) THEN RowOf(pre, id)[k] ELSE p[k]

\* the scenario {name: null, agency: "X"} on a profile of another agency
C8_Witness ==
    /\ Done
    /\ req.op = "update"
    /\ req.args.payload = [name |-> None, agency |-> <<"X">>, description |-> None]
    /\ InTable(pre, req.args.vtuber_id)
    /\ RowOf(pre, req.args.vtuber_id).agency = <<"Y">>
    /\ RowOf(pre, req.args.vtuber_id).description = <<"a">>
    /\ resp.status = 200
    /\ calls[1].body = [agency |-> <<"X">>]
    /\ RowOf(store, req.args.vtuber_id) =
           [RowOf(pre, req.args.vtuber_id) EXCEPT !.agency = <<"X">>]

---------------------------------------------------------------------------
(* C9 *)

\* C9: every operation but the bulk creates makes at most one upstream
\* call (no retry) and, when the upstream answers with a status >= 400,
\* answers with that same status; the bulk creates call the upstream once
\* per payload and answer 201 even when an insertion was refused.
C9_UpstreamErrorsRelayed ==
    Done =>
        IF req.op \in BulkOps
        THEN calls # <<>> => (resp.status = 201 /\ Len(calls) = Len(req.args.vtubers))
        ELSE /\ Len(calls) <= 1
             /\ (Len(calls) = 1 /\ Failed(1)) => resp.status = calls[1].status

C9_Witness ==
    /\ Done
    /\ req.op = "delete"
    /\ InTable(pre, req.args.vtuber_id)
    /\ Len(calls) = 1
    /\ calls[1].status = 500
    /\ resp.status = 500

---------------------------------------------------------------------------
(* C10 *)

InFlight(k) == calls[k].status = 0
CarriedOut(k) == ~ InFlight(k) /\ ~ Failed(k)

\* C10: a bulk create (either body shape) that passed the checks posts the
\* payloads in input order, one call per payload, and starts a call only
\* when the one before has been answered; a refused insertion neither ends
\* the loop nor undoes an earlier one, so when the handler returns there
\* was one call per payload and the table holds, besides what it held, one
\* row for every insertion that was carried out.
C10_BulkSequentialNoRollback ==
    (req.op \in BulkOps /\ (pc \in {"loop", "await"} \/ (Done /\ resp.status = 201))) =>
        LET v == req.args.vtubers
            n == Len(calls)
        IN  /\ n <= Len(v)
            /\ \A k \in 1..n : calls[k].method = "POST" /\ SameFields(calls[k].body, v[k])
            /\ \A k \in 1..(n - 1) : ~ InFlight(k)
            /\ (pc = "await") = (n > 0 /\ InFlight(n))
            /\ (pc = "loop" => n = idx - 1)
            /\ (Done => n = Len(v))
            /\ pre \subseteq store
            /\ Cardinality(store \ pre) = Cardinality({k \in 1..n : CarriedOut(k)})
            /\ \A k \in 1..n :
                   CarriedOut(k) => \E r \in store \ pre : SameFields(r, v[k])

\* created, refused, created: the first row stays and the third is inserted
C10_Witness ==
    /\ Done
    /\ req.op = "batch"
    /\ Len(req.args.vtubers) = 3
    /\ Len(calls) = 3
    /\ CarriedOut(1) /\ Failed(2) /\ CarriedOut(3)
    /\ Cardinality(store \ pre) = 2

=============================================================================
